---- MODULE Spec2Model ----
(***************************************************************************)
(* A model of the call_gate rate-limit counter: the gate engine            *)
(* (call_gate/gate.py) on top of its three storage backends                *)
(*   simple : sliding_window/storages/simple.py (collections.deque)        *)
(*   shared : call_gate/storages/shared.py      (numpy in shared memory)   *)
(*   redis  : call_gate/storages/redis.py       (Lua scripts on a server)  *)
(*                                                                         *)
(* Time is counted in ticks; one frame_step is StepTicks ticks, so that    *)
(* an instant inside a frame differs from the start of the frame.          *)
(* Ring index 0 of the code is index 1 of the sequences here.              *)
(***************************************************************************)
EXTENDS Integers, Sequences, FiniteSets, TLC

\* ------------------------------------------------------------------ bounds
\* number of frames of the gate (gate_size / frame_step)
Frames == 2
\* ticks per frame_step
StepTicks == 2
\* the clock stops advancing at this tick
MaxTime == 6
\* positive updates are only issued while the ring total stays at or below this
MaxSum == 4
\* largest value passed to update()
MaxValue == 2
\* largest amount a negative update takes back
MaxDebit == 1
\* largest limit a gate is configured with
MaxLimit == 2

\* the absent timestamp (None)
None == -1

Backends == {"simple", "shared", "redis"}
Callers == {1, 2}
Values == -MaxDebit .. MaxValue
Limits == 0 .. MaxLimit

\* ------------------------------------------------------------- pure helpers
RECURSIVE SeqSum(_)
SeqSum(s) == IF s = <<>> THEN 0 ELSE Head(s) + SeqSum(Tail(s))

Zeros(n) == [i \in 1 .. n |-> 0]

Min(a, b) == IF a < b THEN a ELSE b

\* int(x / y) of Python for y > 0: truncation towards zero
TruncDiv(x, y) == IF x >= 0 THEN x \div y ELSE -((-x) \div y)

\* CallGate._current_step: the instant floored to a multiple of frame_step
CurrentStep(t) == t - (t % StepTicks)

\* index of the frame that contains instant t
FrameOf(t) == t \div StepTicks

\* ------------------------------------------------------------ storage state
\* a storage: the ring (newest first), the cached sum and the timestamp.
\* The simple backend caches no sum: its field stays 0 and is never read.
Store(d, sm, t) == [data |-> d, sum |-> sm, ts |-> t]

Res(s, e) == [st |-> s, err |-> e]

\* ------------------------------------------------- simple backend (deque)
\* SimpleWindowStorage.sum: computed from the deque on every read
SimpleSum(s) == SeqSum(s.data)

\* SimpleWindowStorage.clear
SimpleClear(s) == [s EXCEPT !.data = Zeros(Frames)]

\* SimpleWindowStorage.slide: extendleft([0] * n) on a deque with maxlen
SimpleSlide(s, n) ==
    IF n < 1 THEN Res(s, "value_error")
    ELSE LET k == Min(n, Frames)
         IN  Res([s EXCEPT !.data = Zeros(k) \o SubSeq(s.data, 1, Frames - k)], "ok")

\* faulty variant of the next definition: the two limits are not looked at
SimpleAtomicUpdateUnlimited(s, value, frame_limit, gate_limit) ==
    LET new_value == s.data[1] + value
        new_sum == SeqSum(s.data) + value
    IN  IF new_sum < 0 THEN Res(s, "gate_overflow")
        ELSE IF new_value < 0 THEN Res(s, "frame_overflow")
        ELSE Res([s EXCEPT !.data[1] = new_value], "ok")

\* SimpleWindowStorage.atomic_update
SimpleAtomicUpdate(s, value, frame_limit, gate_limit) ==
    LET current_value == s.data[1]
        new_value == current_value + value
        current_sum == SeqSum(s.data)
        new_sum == current_sum + value
    IN  IF 0 < frame_limit /\ frame_limit < new_value THEN Res(s, "frame_limit")
        ELSE IF 0 < gate_limit /\ gate_limit < new_sum THEN Res(s, "gate_limit")
        ELSE IF new_sum < 0 THEN Res(s, "gate_overflow")
        ELSE IF new_value < 0 THEN Res(s, "frame_overflow")
        ELSE Res([s EXCEPT !.data[1] = new_value], "ok")

\* SimpleWindowStorage.__setitem__
SimpleSetItem(s, index, value) == [s EXCEPT !.data[index] = value]

\* ------------------------------------------- shared backend (numpy array)
\* SharedMemoryStorage._set_sum
SharedSetSum(s) == [s EXCEPT !.sum = SeqSum(s.data)]

\* SharedMemoryStorage.clear
SharedClear(s) == [s EXCEPT !.data = Zeros(Frames), !.sum = 0]

\* SharedMemoryStorage.slide: "if n <= 0: pass" rejects nothing, so a value
\* below 1 reaches the slice assignments: n = 0 fails inside numpy (an empty
\* slice cannot be broadcast into the ring) and a negative n is read by the
\* slices as an offset from the end.
SharedSlide(s, n) ==
    IF n >= Frames THEN Res(SharedClear(s), "ok")
    ELSE IF n = 0 THEN Res(s, "numpy_error")
    ELSE IF n < 0 THEN
        IF -n >= Frames THEN Res(SharedSetSum(s), "ok")
        ELSE Res(SharedSetSum([s EXCEPT !.data =
                    Zeros(Frames + n) \o SubSeq(s.data, 1, -n)]), "ok")
    ELSE Res(SharedSetSum([s EXCEPT !.data =
                    Zeros(n) \o SubSeq(s.data, 1, Frames - n)]), "ok")

\* faulty variant of the next definition: the gate limit is looked at
\* before the frame limit
SharedAtomicUpdateGateFirst(s, value, frame_limit, gate_limit) ==
    LET current_value == s.data[1]
        new_value == current_value + value
        current_sum == s.sum
        new_sum == current_sum + value
    IN  IF 0 < gate_limit /\ gate_limit < new_sum THEN Res(s, "gate_limit")
        ELSE IF 0 < frame_limit /\ frame_limit < new_value THEN Res(s, "frame_limit")
        ELSE IF new_sum < 0 THEN Res(s, "gate_overflow")
        ELSE IF new_value < 0 THEN Res(s, "frame_overflow")
        ELSE Res([s EXCEPT !.data[1] = new_value, !.sum = new_sum], "ok")

\* SharedMemoryStorage.atomic_update
SharedAtomicUpdate(s, value, frame_limit, gate_limit) ==
    LET current_value == s.data[1]
        new_value == current_value + value
        current_sum == s.sum
        new_sum == current_sum + value
    IN  IF 0 < frame_limit /\ frame_limit < new_value THEN Res(s, "frame_limit")
        ELSE IF 0 < gate_limit /\ gate_limit < new_sum THEN Res(s, "gate_limit")
        ELSE IF new_sum < 0 THEN Res(s, "gate_overflow")
        ELSE IF new_value < 0 THEN Res(s, "frame_overflow")
        ELSE Res([s EXCEPT !.data[1] = new_value, !.sum = new_sum], "ok")

\* SharedMemoryStorage.__setitem__
SharedSetItem(s, index, value) == SharedSetSum([s EXCEPT !.data[index] = value])

\* --------------------------------------------- redis backend (Lua scripts)
\* RedisStorage.clear: the script rebuilds the list, zeroes the sum and
\* deletes the timestamp key
RedisClear(s) == Store(Zeros(Frames), 0, None)

\* the loop of the slide script: RPOP the tail, add it up, LPUSH "0"
RECURSIVE RedisSlideLoop(_, _, _)
RedisSlideLoop(list, removed_sum, n) ==
    IF n = 0 THEN [list |-> list, removed_sum |-> removed_sum]
    ELSE IF list = <<>> THEN RedisSlideLoop(<<0>>, removed_sum, n - 1)
    ELSE RedisSlideLoop(<<0>> \o SubSeq(list, 1, Len(list) - 1),
                        removed_sum + list[Len(list)], n - 1)

\* faulty variant of the next definition: the sum key keeps its value
RedisSlideScriptStaleSum(s, n, t) ==
    LET r == RedisSlideLoop(s.data, 0, n)
    IN  Store(r.list, s.sum, t)

\* the slide script as a whole; t is datetime.now() of the client
RedisSlideScript(s, n, t) ==
    LET r == RedisSlideLoop(s.data, 0, n)
    IN  Store(r.list, s.sum - r.removed_sum, t)

\* RedisStorage.slide: after clear() for n >= capacity the method goes on
\* and runs the script as well
RedisSlide(s, n, t) ==
    IF n < 1 THEN Res(s, "value_error")
    ELSE IF n >= Frames THEN Res(RedisSlideScript(RedisClear(s), n, t), "ok")
    ELSE Res(RedisSlideScript(s, n, t), "ok")

\* faulty variant of the next definition: the timestamp key is written
\* before the checks
RedisAtomicUpdateStampsFirst(s, value, frame_limit, gate_limit, t) ==
    LET current_value == s.data[1]
        new_value == current_value + value
        current_sum == s.sum
        new_sum == current_sum + value
        stamped == [s EXCEPT !.ts = t]
    IN  IF frame_limit > 0 /\ new_value > frame_limit THEN Res(stamped, "frame_limit")
        ELSE IF gate_limit > 0 /\ new_sum > gate_limit THEN Res(stamped, "gate_limit")
        ELSE IF new_sum < 0 THEN Res(stamped, "gate_overflow")
        ELSE IF new_value < 0 THEN Res(stamped, "frame_overflow")
        ELSE Res(Store([s.data EXCEPT ![1] = new_value], new_sum, t), "ok")

\* RedisStorage.atomic_update: one Lua script; t is datetime.now()
RedisAtomicUpdate(s, value, frame_limit, gate_limit, t) ==
    LET current_value == s.data[1]
        new_value == current_value + value
        current_sum == s.sum
        new_sum == current_sum + value
    IN  IF frame_limit > 0 /\ new_value > frame_limit THEN Res(s, "frame_limit")
        ELSE IF gate_limit > 0 /\ new_sum > gate_limit THEN Res(s, "gate_limit")
        ELSE IF new_sum < 0 THEN Res(s, "gate_overflow")
        ELSE IF new_value < 0 THEN Res(s, "frame_overflow")
        ELSE Res(Store([s.data EXCEPT ![1] = new_value], new_sum, t), "ok")

\* RedisStorage.get_timestamp / set_timestamp / clear_timestamp
RedisGetTimestamp(s) == s.ts
RedisSetTimestamp(s, dt) == [s EXCEPT !.ts = dt]
RedisClearTimestamp(s) == [s EXCEPT !.ts = None]

\* the same three methods of the simple and shared storages
LocalGetTimestamp(s) == s.ts
LocalSetTimestamp(s, dt) == [s EXCEPT !.ts = dt]
LocalClearTimestamp(s) == [s EXCEPT !.ts = None]

\* RedisStorage.__setitem__ (sliding_window/storages/redis.py; the call_gate
\* version of the class has none): the script ignores the index and
\* replaces the head of the list
RedisSetItem(s, index, value) ==
    LET current_sum == s.sum
        old_value == s.data[1]
        new_sum == current_sum - old_value + value
    IN  [s EXCEPT !.data[1] = value, !.sum = new_sum]

\* ------------------------------------------------------------ construction
\* adjust_list of the redis init script: pad with "0" or cut to cap entries
AdjustList(list, cap) ==
    IF Len(list) < cap THEN list \o Zeros(cap - Len(list))
    ELSE SubSeq(list, 1, cap)

\* the redis init script, on the list stored under the name (<<>> when the
\* key does not exist) and the data of the caller; the timestamp key stays
RedisInit(existing, ts, d) ==
    LET newList == AdjustList(d \o existing, Frames)
    IN  Store(newList, SeqSum(newList), ts)

\* deque.extendleft(d) on a deque with maxlen: every element is pushed at
\* the head in turn and the tail entry falls off
RECURSIVE ExtendLeft(_, _)
ExtendLeft(dq, d) ==
    IF d = <<>> THEN dq
    ELSE ExtendLeft(<<Head(d)>> \o SubSeq(dq, 1, Len(dq) - 1), Tail(d))

\* SimpleWindowStorage.__init__
SimpleInit(d) == Store(ExtendLeft(Zeros(Frames), d), 0, None)

\* SharedMemoryStorage.__init__ on a fresh region
SharedInit(d) ==
    LET cut == SubSeq(d, 1, Min(Len(d), Frames))
        ring == cut \o Zeros(Frames - Len(cut))
    IN  Store(ring, SeqSum(ring), None)

\* ------------------------------------------- dispatch on the storage kind
StorageInit(b, d) ==
    CASE b = "simple" -> SimpleInit(d)
      [] b = "shared" -> SharedInit(d)
      [] b = "redis" -> RedisInit(<<>>, None, d)

StorageSetItem(b, s, index, value) ==
    CASE b = "simple" -> SimpleSetItem(s, index, value)
      [] b = "shared" -> SharedSetItem(s, index, value)
      [] b = "redis" -> RedisSetItem(s, index, value)

StorageSum(b, s) == IF b = "simple" THEN SimpleSum(s) ELSE s.sum

StorageClear(b, s) ==
    CASE b = "simple" -> SimpleClear(s)
      [] b = "shared" -> SharedClear(s)
      [] b = "redis" -> RedisClear(s)

StorageSlide(b, s, n, t) ==
    CASE b = "simple" -> SimpleSlide(s, n)
      [] b = "shared" -> SharedSlide(s, n)
      [] b = "redis" -> RedisSlide(s, n, t)

\* faulty variant of the next definition: the shared storage is served
\* by the code of the simple one, which keeps no cached sum
StorageAtomicUpdateMiswired(b, s, value, frame_limit, gate_limit, t) ==
    CASE b = "simple" -> SimpleAtomicUpdate(s, value, frame_limit, gate_limit)
      [] b = "shared" -> SimpleAtomicUpdate(s, value, frame_limit, gate_limit)
      [] b = "redis" -> RedisAtomicUpdate(s, value, frame_limit, gate_limit, t)

StorageAtomicUpdate(b, s, value, frame_limit, gate_limit, t) ==
    CASE b = "simple" -> SimpleAtomicUpdate(s, value, frame_limit, gate_limit)
      [] b = "shared" -> SharedAtomicUpdate(s, value, frame_limit, gate_limit)
      [] b = "redis" -> RedisAtomicUpdate(s, value, frame_limit, gate_limit, t)

StorageGetTimestamp(b, s) ==
    IF b = "redis" THEN RedisGetTimestamp(s) ELSE LocalGetTimestamp(s)

StorageSetTimestamp(b, s, dt) ==
    IF b = "redis" THEN RedisSetTimestamp(s, dt) ELSE LocalSetTimestamp(s, dt)

StorageClearTimestamp(b, s) ==
    IF b = "redis" THEN RedisClearTimestamp(s) ELSE LocalClearTimestamp(s)

\* ------------------------------------------------------------------ state
VARIABLES
    backend,      \* storage kind of the gate
    shape,        \* how the callers share the gate (see InstOf, LockDomOf)
    gate_limit,   \* CallGate._gate_limit
    frame_limit,  \* CallGate._frame_limit
    storage,      \* the storage behind the gate name: data, sum, timestamp
    now,          \* the wall clock, in ticks
    current_dt,   \* CallGate._current_dt of every gate object
    rlock,        \* owner of CallGate._rlock per lock domain (0: free)
    pc,           \* where every caller stands
    arg,          \* value, throw, "first attempt", caught error and attempts carried out of the update in progress
    wake,         \* end of the time.sleep(frame_step) of a throttled caller
    last,         \* the last call made on the storage directly, and its result
    track,        \* whether the history variable is recorded
    added,        \* history: what was added in each of the newest Frames frames
    mutex,        \* owner of the in-process lock of every storage object
    flock,        \* open file description that holds the lock file (0: none)
    before,       \* history: the storage as each slide(n < Frames) in progress found it
    lock_key,     \* {name}:global_lock of RedisReentrantLock: seconds to live (0: no key)
    owner_key,    \* {name}:lock_owner: the owner token and its seconds to live
    count_key,    \* {name}:lock_count: the hash owner token -> nesting counter
    held,         \* per caller, the "with lock:" blocks entered and not left
    lock_pc,      \* where every caller stands in __enter__ / __exit__
    sugar,        \* per caller, the call through the decorator or "with gate:" in progress
    client,       \* the redis client of the gate: injected or made by the storage, closed or not
    shm           \* the shared memory of the gate name: whether the name is linked, and what each caller's storage maps

vars == <<backend, shape, gate_limit, frame_limit, storage, now, current_dt,
          rlock, pc, arg, wake, last, track, added, mutex, flock, before,
          lock_key, owner_key, count_key, held, lock_pc, sugar, client, shm>>

\* what a storage holds from outside the process and gives back when it
\* is closed or collected
teardown == <<client, shm>>

\* the keys of the reentrant redis lock and its users
redlock == <<lock_key, owner_key, count_key, held, lock_pc>>

\* the locks inside the storage, which the model takes and releases only
\* where it follows a storage method step by step, and the storage that
\* a slide followed in this way found
guards == <<mutex, flock, before, redlock, sugar, teardown>>

config == <<backend, shape, gate_limit, frame_limit, track>>

\* what the gate engine leaves alone when the storage is called directly
engine == <<current_dt, rlock, pc, arg, wake, added>>

\* "threads"  : the callers are threads that use one CallGate object
\* "procs"    : every caller has its own copy of the gate object (its own
\*              _current_dt); the manager locks are proxies to the same locks
\* "services" : every caller built its own gate under the same name
Shapes == {"threads", "procs", "services"}

InstOf(p) == IF shape = "threads" THEN 1 ELSE p
LockDomOf(p) == IF shape = "services" THEN p ELSE 1

\* the open file description behind GlobalLock.fd of caller p: threads use
\* one storage object, a process that holds a copy of the storage object
\* inherited the descriptor, a service opened the lock file itself
FileOf(p) == IF shape = "services" THEN p ELSE 1

\* faulty variant of the next definition: the retry loop catches every
\* error of the gate
ThrottlingAndOverflow == {"frame_limit", "gate_limit", "gate_overflow", "frame_overflow"}

\* the errors of class ThrottlingError, which the retry loop catches
Throttling == {"frame_limit", "gate_limit"}
Overflows == {"gate_overflow", "frame_overflow"}

\* a storage that holds nothing
NoStore == Store(Zeros(Frames), 0, None)

\* no update in progress; step is the frame start seen by the last refresh,
\* applied counts the attempts of the update in progress that the storage
\* has carried out
NoArg == [value |-> 0, throw |-> FALSE, first |-> TRUE, step |-> None, err |-> "ok",
          applied |-> 0]

\* the storage made its redis client itself, and nobody has closed it
NoClient == [injected |-> FALSE, closed |-> FALSE]

\* the segments of the gate name are linked and every caller's storage
\* maps them
NoShm == [linked |-> TRUE, at |-> [p \in Callers |-> "named"]]

\* no call through the decorator or the scope form is in progress
NoSugar == [form |-> "none", loop |-> FALSE, value |-> 0, throw |-> FALSE,
            stage |-> "none", updates |-> 0]

\* ------------------------------------------------------------ gate engine
\* faulty variant of the next definition: the stored timestamp is kept
GateClearStorageKeepsTimestamp(b, s) == StorageClear(b, s)

\* CallGate.clear, the part that touches the storage
GateClearStorage(b, s) == StorageClearTimestamp(b, StorageClear(b, s))

\* faulty variant of the next definition: a frame difference below 0 is
\* followed, and the gate is anchored at the earlier step
RefreshFramesFollowsClockBack(b, s, cdt, t) ==
    LET current_step == CurrentStep(t)
        diff == TruncDiv(current_step - cdt, StepTicks)
    IN  IF cdt = None
        THEN [st |-> StorageSetTimestamp(b, s, current_step), cdt |-> current_step]
        ELSE IF diff >= Frames
        THEN [st |-> GateClearStorage(b, s), cdt |-> None]
        ELSE IF diff > 0
        THEN [st |-> StorageSetTimestamp(b, StorageSlide(b, s, diff, t).st, current_step),
              cdt |-> current_step]
        ELSE IF diff < 0
        THEN [st |-> StorageSetTimestamp(b, s, current_step), cdt |-> current_step]
        ELSE [st |-> s, cdt |-> cdt]

\* CallGate._refresh_frames on a gate whose _current_dt is cdt, at instant t
RefreshFrames(b, s, cdt, t) ==
    LET current_step == CurrentStep(t)
        diff == TruncDiv(current_step - cdt, StepTicks)
    IN  IF cdt = None
        THEN [st |-> StorageSetTimestamp(b, s, current_step), cdt |-> current_step]
        ELSE IF diff >= Frames
        THEN [st |-> GateClearStorage(b, s), cdt |-> None]
        ELSE IF diff > 0
        THEN [st |-> StorageSetTimestamp(b, StorageSlide(b, s, diff, t).st, current_step),
              cdt |-> current_step]
        ELSE [st |-> s, cdt |-> cdt]

\* History. added.ring[i + 1] is the total of the values that successful
\* updates added during frame added.at - i; older frames are forgotten.
\* added.timely says that every update so far added its value in the frame
\* in which it had refreshed the ring (the clock did not cross a frame
\* boundary between the two steps of the update).
\* HistoryAt moves the history to frame f without adding anything.
HistoryAt(h, f) ==
    LET k == f - h.at
    IN  IF k <= 0 THEN h
        ELSE IF k >= Frames THEN [h EXCEPT !.ring = Zeros(Frames), !.at = f]
        ELSE [h EXCEPT !.ring = Zeros(k) \o SubSeq(h.ring, 1, Frames - k), !.at = f]

\* the history after value was added at instant t by an update that had
\* refreshed the ring in the frame starting at step
Record(h, t, value, step) ==
    IF track
    THEN [HistoryAt(h, FrameOf(t)) EXCEPT !.ring[1] = @ + value,
                                          !.timely = @ /\ step = CurrentStep(t)]
    ELSE h

\* faulty variant of the next definition: update() never tries again
RetriesNever(a, err) == FALSE

\* whether update() tries again after atomic_update raised err: the first
\* failure is retried unless throw is set, a failure inside the retry loop
\* only when it is a throttling error
Retries(a, err) == IF a.first THEN ~a.throw ELSE err \in Throttling

\* the caller's position after update() raised err
Raised(p, a, err) ==
    /\ pc' = [pc EXCEPT ![p] = "raised"]
    /\ arg' = [arg EXCEPT ![p] = [a EXCEPT !.err = err, !.first = TRUE, !.step = None]]

\* what update(value, throw) does to the gate up to and including the
\* self._refresh_frames() that it runs once it holds _rlock
UpdateBegin(p, value, throw) ==
    /\ pc[p] = "idle"
    /\ value > 0 => StorageSum(backend, storage) + value <= MaxSum
    /\ IF value = 0
       THEN UNCHANGED <<storage, current_dt, rlock, pc, arg>>
       ELSE IF value > frame_limit /\ frame_limit > 0
       THEN /\ Raised(p, [NoArg EXCEPT !.value = value, !.throw = throw], "frame_limit")
            /\ UNCHANGED <<storage, current_dt, rlock>>
       ELSE /\ rlock[LockDomOf(p)] = 0
            /\ rlock' = [rlock EXCEPT ![LockDomOf(p)] = p]
            /\ LET r == RefreshFrames(backend, storage, current_dt[InstOf(p)], now)
               IN  /\ storage' = r.st
                   /\ current_dt' = [current_dt EXCEPT ![InstOf(p)] = r.cdt]
            /\ pc' = [pc EXCEPT ![p] = "atomic"]
            /\ arg' = [arg EXCEPT ![p] =
                          [NoArg EXCEPT !.value = value, !.throw = throw,
                                        !.step = IF track THEN CurrentStep(now) ELSE None]]

\* update(value, throw), up to and including the self._refresh_frames()
\* that it runs once it holds _rlock
UpdateCall(p, value, throw) ==
    /\ UpdateBegin(p, value, throw)
    /\ UNCHANGED <<config, guards, last, now, wake, added>>

\* self._refresh_frames() in the retry loop of update()
UpdateRefresh(p) ==
    /\ pc[p] = "refresh"
    /\ LET r == RefreshFrames(backend, storage, current_dt[InstOf(p)], now)
       IN  /\ storage' = r.st
           /\ current_dt' = [current_dt EXCEPT ![InstOf(p)] = r.cdt]
    /\ pc' = [pc EXCEPT ![p] = "atomic"]
    /\ arg' = [arg EXCEPT ![p].step = IF track THEN CurrentStep(now) ELSE None]
    /\ UNCHANGED <<config, guards, last, now, rlock, wake, added>>

\* self._data.atomic_update(...) inside update() and what follows from its
\* result: return, raise, enter the retry loop, or sleep inside the loop
UpdateAtomic(p) ==
    /\ pc[p] = "atomic"
    /\ LET r == StorageAtomicUpdate(backend, storage, arg[p].value,
                                    frame_limit, gate_limit, now)
       IN  /\ storage' = r.st
           /\ IF r.err = "ok"
              THEN /\ pc' = [pc EXCEPT ![p] = "idle"]
                   /\ rlock' = [rlock EXCEPT ![LockDomOf(p)] = 0]
                   /\ added' = Record(added, now, arg[p].value, arg[p].step)
                   /\ arg' = [arg EXCEPT ![p] = NoArg]
                   /\ UNCHANGED wake
              ELSE IF ~Retries(arg[p], r.err)
              THEN /\ Raised(p, arg[p], r.err)
                   /\ rlock' = [rlock EXCEPT ![LockDomOf(p)] = 0]
                   /\ UNCHANGED <<wake, added>>
              ELSE IF arg[p].first
              THEN /\ pc' = [pc EXCEPT ![p] = "refresh"]
                   /\ arg' = [arg EXCEPT ![p].first = FALSE, ![p].err = r.err]
                   /\ UNCHANGED <<rlock, wake, added>>
              ELSE /\ pc' = [pc EXCEPT ![p] = "sleep"]
                   /\ wake' = [wake EXCEPT ![p] = now + StepTicks]
                   /\ UNCHANGED <<rlock, arg, added>>
    /\ UNCHANGED <<config, guards, last, now, current_dt>>

\* the caller has taken the error that update() raised
UpdateRaised(p) ==
    /\ pc[p] = "raised"
    /\ pc' = [pc EXCEPT ![p] = "idle"]
    /\ arg' = [arg EXCEPT ![p] = NoArg]
    /\ UNCHANGED <<config, guards, last, storage, now, current_dt, rlock, wake, added>>

\* time.sleep(frame_step) in the retry loop is over
UpdateWake(p) ==
    /\ pc[p] = "sleep"
    /\ now >= wake[p]
    /\ pc' = [pc EXCEPT ![p] = "refresh"]
    /\ wake' = [wake EXCEPT ![p] = 0]
    /\ UNCHANGED <<config, guards, last, storage, now, current_dt, rlock, arg, added>>

\* CallGate.clear
Clear(p) ==
    /\ pc[p] = "idle"
    /\ storage' = GateClearStorage(backend, storage)
    /\ current_dt' = [current_dt EXCEPT ![InstOf(p)] = None]
    /\ UNCHANGED <<config, guards, last, now, rlock, pc, arg, wake, added>>

\* the clock advances by one tick
Tick ==
    /\ now < MaxTime
    /\ now' = now + 1
    /\ UNCHANGED <<config, guards, last, storage, current_dt, rlock, pc, arg, wake, added>>

\* ---------------------------------------------- the storage called directly
\* last.seq flips with every call, so that a call is told from its repetition
NoCall == [op |-> "none", a |-> 0, fl |-> 0, gl |-> 0, err |-> "ok", seq |-> 0]

Call(op, a, fl, gl, err) ==
    [op |-> op, a |-> a, fl |-> fl, gl |-> gl, err |-> err, seq |-> 1 - last.seq]

\* storage.atomic_update(value, fl, gl)
StAtomicUpdate(value, fl, gl) ==
    /\ value > 0 => StorageSum(backend, storage) + value <= MaxSum
    /\ LET r == StorageAtomicUpdate(backend, storage, value, fl, gl, now)
       IN  /\ storage' = r.st
           /\ last' = Call("atomic_update", value, fl, gl, r.err)
    /\ UNCHANGED <<config, guards, now, engine>>

\* storage.slide(n)
StSlide(n) ==
    /\ LET r == StorageSlide(backend, storage, n, now)
       IN  /\ storage' = r.st
           /\ last' = Call("slide", n, 0, 0, r.err)
    /\ UNCHANGED <<config, guards, now, engine>>

\* storage.clear()
StClear ==
    /\ storage' = StorageClear(backend, storage)
    /\ last' = Call("clear", 0, 0, 0, "ok")
    /\ UNCHANGED <<config, guards, now, engine>>

\* storage[index] = value
StSetItem(index, value) ==
    /\ storage' = StorageSetItem(backend, storage, index, value)
    /\ last' = Call("setitem", value, index, 0, "ok")
    /\ UNCHANGED <<config, guards, now, engine>>

\* ------------------------------------------------- one gate, one caller
\* a gate of any storage kind, freshly built without data
InitCommon ==
    /\ backend \in Backends
    /\ storage = Store(Zeros(Frames), 0, None)
    /\ now = 0
    /\ current_dt = [g \in Callers |-> None]
    /\ rlock = [d \in Callers |-> 0]
    /\ pc = [p \in Callers |-> "idle"]
    /\ arg = [p \in Callers |-> NoArg]
    /\ wake = [p \in Callers |-> 0]
    /\ last = NoCall
    /\ added = [ring |-> Zeros(Frames), at |-> 0, timely |-> TRUE]
    /\ mutex = [g \in Callers |-> 0]
    /\ flock = 0
    /\ before = [p \in Callers |-> NoStore]
    /\ lock_key = 0
    /\ owner_key = [who |-> 0, ttl |-> 0]
    /\ count_key = [o \in Callers |-> 0]
    /\ held = [p \in Callers |-> 0]
    /\ lock_pc = [p \in Callers |-> "out"]
    /\ sugar = [p \in Callers |-> NoSugar]
    /\ client = NoClient
    /\ shm = NoShm

\* a gate of any limits used by caller 1 alone through update() while the
\* clock runs
InitSolo ==
    /\ InitCommon
    /\ gate_limit \in Limits
    /\ frame_limit \in Limits
    /\ ~(0 < gate_limit /\ gate_limit < frame_limit)
    /\ shape = "threads"
    /\ track = TRUE

NextSolo ==
    \/ \E value \in Values, throw \in BOOLEAN : UpdateCall(1, value, throw)
    \/ UpdateRefresh(1)
    \/ UpdateAtomic(1)
    \/ UpdateWake(1)
    \/ UpdateRaised(1)
    \/ Tick

SpecSolo == InitSolo /\ [][NextSolo]_vars

\* ------------------------------------------------------------------ C1
\* caller p returns from a successful update in this step
UpdateReturned(p) == pc[p] = "atomic" /\ pc'[p] = "idle"

\* C1: with one gate and one caller, after updates and clock advances only,
\* right after every successful update the ring is gap-free: data[i] is the
\* total of the values added during the frame that starts i frame steps
\* before floor(now), so nothing older than the window is still counted.
C1_RingGapFree ==
    [][UpdateReturned(1) /\ added'.timely => storage'.data = added'.ring]_vars

\* --------------------------------------------------- the storage alone
\* initial data handed to the constructor: every list of at most
\* Frames + 1 entries, each entry at most MaxSeed
MaxSeed == 1

Seeds == UNION {[1 .. n -> 0 .. MaxSeed] : n \in 0 .. Frames + 1}

\* a storage of any kind, built with or without initial data and then
\* called directly with any arguments
InitStorage ==
    /\ backend \in Backends
    /\ shape = "threads"
    /\ gate_limit = 0
    /\ frame_limit = 0
    /\ \E d \in Seeds : storage = StorageInit(backend, d)
    /\ now = 0
    /\ current_dt = [g \in Callers |-> None]
    /\ rlock = [d \in Callers |-> 0]
    /\ pc = [p \in Callers |-> "idle"]
    /\ arg = [p \in Callers |-> NoArg]
    /\ wake = [p \in Callers |-> 0]
    /\ last = NoCall
    /\ track = FALSE
    /\ added = [ring |-> Zeros(Frames), at |-> 0, timely |-> TRUE]
    /\ mutex = [g \in Callers |-> 0]
    /\ flock = 0
    /\ before = [p \in Callers |-> NoStore]
    /\ lock_key = 0
    /\ owner_key = [who |-> 0, ttl |-> 0]
    /\ count_key = [o \in Callers |-> 0]
    /\ held = [p \in Callers |-> 0]
    /\ lock_pc = [p \in Callers |-> "out"]
    /\ sugar = [p \in Callers |-> NoSugar]
    /\ client = NoClient
    /\ shm = NoShm

NextStorage ==
    \/ \E value \in Values \ {0}, fl \in Limits, gl \in Limits :
            StAtomicUpdate(value, fl, gl)
    \/ \E n \in -(Frames + 1) .. Frames + 1 : StSlide(n)
    \/ StClear
    \/ \E index \in 1 .. Frames, value \in 0 .. MaxValue : StSetItem(index, value)
    \/ Tick

SpecStorage == InitStorage /\ [][NextStorage]_vars

\* this step is a call of the storage operation op
Called(op) == last'.seq # last.seq /\ last'.op = op

\* ------------------------------------------------------------------ C4
\* C4: in every backend the sum that the storage reports equals the total
\* of the ring, after construction with or without initial data and after
\* any atomic_update, slide, clear and indexed set.
C4_SumIsRingTotal == StorageSum(backend, storage) = SeqSum(storage.data)

\* a slide of a storage with a cached sum has dropped a counted frame and
\* kept another
C4_Witness ==
    /\ backend # "simple"
    /\ last.op = "slide" /\ last.err = "ok" /\ last.a = 1
    /\ storage.data[2] > 0
    /\ storage.sum = storage.data[2]

\* ------------------------------------------------------------------ C5
\* C5: atomic_update(value, F, G) on a ring whose current frame holds c and
\* whose sum is s ends in exactly one way, decided in this order: frame
\* limit if F > 0 and c + value > F; else gate limit if G > 0 and
\* s + value > G; else gate overflow if s + value < 0; else frame overflow
\* if c + value < 0; else success.
C5_OutcomeOrder ==
    [][Called("atomic_update") =>
        LET c == storage.data[1]
            s == StorageSum(backend, storage)
            value == last'.a
            F == last'.fl
            G == last'.gl
        IN  last'.err =
                IF F > 0 /\ c + value > F THEN "frame_limit"
                ELSE IF G > 0 /\ s + value > G THEN "gate_limit"
                ELSE IF s + value < 0 THEN "gate_overflow"
                ELSE IF c + value < 0 THEN "frame_overflow"
                ELSE "ok"]_vars

\* an atomic_update that exceeded both limits ended with the frame limit
C5_Witness ==
    /\ last.op = "atomic_update" /\ last.err = "frame_limit"
    /\ last.gl > 0
    /\ StorageSum(backend, storage) + last.a > last.gl

\* ------------------------------------------------------------------ C6
\* C6: an atomic_update that fails leaves the ring, the sum and the stored
\* timestamp as they were.
C6_FailureChangesNothing ==
    [][Called("atomic_update") /\ last'.err # "ok" => storage' = storage]_vars

\* an atomic_update failed on a storage that holds counts and a timestamp
\* older than the failing call
C6_Witness ==
    /\ last.op = "atomic_update" /\ last.err # "ok"
    /\ storage.data[1] > 0
    /\ storage.ts # None /\ storage.ts < now

\* ------------------------------------------- one gate name, two callers
\* A gate of any storage kind, without a gate limit or with the largest
\* one, without a frame limit or with the smallest one, freshly built
\* without data, used by two callers: threads on one gate object, processes
\* that each hold a copy of the gate object, or services that each built a
\* gate under the same name.  The simple storage lives in one process only.
Init ==
    /\ InitCommon
    /\ gate_limit \in {0, MaxLimit}
    /\ frame_limit \in {0, 1}
    /\ shape \in Shapes
    /\ backend = "simple" => shape = "threads"
    /\ track = FALSE

Next ==
    \/ \E p \in Callers, value \in Values, throw \in BOOLEAN : UpdateCall(p, value, throw)
    \/ \E p \in Callers : UpdateRefresh(p)
    \/ \E p \in Callers : UpdateAtomic(p)
    \/ \E p \in Callers : UpdateWake(p)
    \/ \E p \in Callers : UpdateRaised(p)
    \/ \E p \in Callers : Clear(p)
    \/ Tick

Spec == Init /\ [][Next]_vars

C7_UpdateAddsToHeadAndSum ==
    [][\A p \in Callers : UpdateReturned(p) =>
        /\ StorageSum(backend, storage') = StorageSum(backend, storage) + arg[p].value
        /\ storage'.data[1] = storage.data[1] + arg[p].value
        /\ \A i \in 2 .. Frames : storage'.data[i] = storage.data[i]]_vars

\* updates succeeded in two frames that are both still on the ring
C7_Witness == storage.data[1] > 0 /\ storage.data[2] > 0

\* ------------------------------------------------------------------ C10
\* C10 as stated: update(value, throw = false) never raises a frame limit
\* or gate limit error, for every value and every state of the gate.
C10_BlockingNeverThrottled ==
    \A p \in Callers :
        pc[p] = "raised" /\ arg[p].err \in Throttling => arg[p].throw

\* C10 amended: update(value, throw = false) raises a frame limit or gate
\* limit error only for a value above a positive frame_limit, which is
\* refused before the gate is touched; every other throttled blocking
\* update waits and tries again.
C10_BlockingThrottledOnlyAboveFrameLimit ==
    \A p \in Callers :
        pc[p] = "raised" /\ arg[p].err \in Throttling /\ ~arg[p].throw
            => arg[p].value > frame_limit /\ frame_limit > 0

\* a blocking update was throttled twice and sleeps instead of raising
\* the throttling error it caught
C10_Witness ==
    \E p \in Callers : pc[p] = "sleep" /\ ~arg[p].throw /\ arg[p].err \in Throttling

\* --------------------------------- one gate name, two callers, no limits
\* A gate without limits, built once and handed to two callers that only
\* add: threads on the gate object, or processes that each hold a copy of
\* it.  The values that updates added are kept in the history.
InitTeam ==
    /\ InitCommon
    /\ gate_limit = 0
    /\ frame_limit = 0
    /\ shape \in {"threads", "procs"}
    /\ backend = "simple" => shape = "threads"
    /\ track = TRUE

NextTeam ==
    \/ \E p \in Callers, value \in 1 .. MaxValue, throw \in BOOLEAN :
            UpdateCall(p, value, throw)
    \/ \E p \in Callers : UpdateAtomic(p)
    \/ Tick

SpecTeam == InitTeam /\ [][NextTeam]_vars

\* ------------------------------------------------------------------ C8
\* C8: no update is lost: while the callers (threads on any backend,
\* processes on the shared and redis backends) update a gate without
\* limits and the clock is still in the first window, the sum is the total
\* of the values of all updates that returned; with N callers that each
\* made M updates of v it is N * M * v.
C8_NoLostUpdate ==
    FrameOf(now) < Frames => StorageSum(backend, storage) = SeqSum(added.ring)

\* ------------------------------------- the storage methods step by step
\* Two callers call atomic_update, slide and clear of a simple or shared
\* storage directly; every method is followed from the moment it holds its
\* locks to the moment it has released them.  (The redis scripts run one at
\* a time on the server.)
\*
\* pc[p] is "in_atomic_update", "in_slide" or "in_clear" while p is inside
\* the "with" block of the method, and "slide_tail" when the clear() that
\* slide(n >= capacity) calls has returned and the rest of slide is to run.
\* The three statements of the shared slide(n < capacity) are three steps
\* ("slide_moved", "slide_zeroed" and the leave); every other body runs in
\* the step that leaves the method.
StOps == {"atomic_update", "slide", "clear"}

Inside(p) ==
    pc[p] \in {"in_atomic_update", "in_slide", "slide_moved", "slide_zeroed",
               "slide_tail", "in_clear"}

\* fcntl.flock(fd, LOCK_EX) returns for description f
FlockFree(f) == flock = 0 \/ flock = f

\* fcntl.flock(fd, LOCK_UN) by description f
FlockUn(f) == IF flock = f THEN 0 ELSE flock

\* the method op(a) of caller p gets past its "with" lines: the simple
\* storage takes self._lock (a Lock), the shared storage self._rlock
\* (an RLock) and then self._lock (the GlobalLock on the lock file)
StEnter(p, op, a) ==
    /\ pc[p] = "idle"
    /\ op = "atomic_update" /\ a > 0 =>
          /\ StorageSum(backend, storage) + a <= MaxSum
          /\ SeqSum(storage.data) + a <= MaxSum
    /\ mutex[InstOf(p)] = 0
    /\ mutex' = [mutex EXCEPT ![InstOf(p)] = p]
    /\ IF backend = "shared"
       THEN FlockFree(FileOf(p)) /\ flock' = FileOf(p)
       ELSE UNCHANGED flock
    /\ pc' = [pc EXCEPT ![p] = "in_" \o op]
    /\ arg' = [arg EXCEPT ![p] = [NoArg EXCEPT !.value = a]]
    /\ before' = [before EXCEPT ![p] =
                    IF track /\ op = "slide" /\ a < Frames THEN storage ELSE NoStore]
    /\ UNCHANGED <<config, last, storage, now, current_dt, rlock, wake, added, redlock, teardown,
                   sugar>>

\* SharedMemoryStorage.slide(n >= capacity) runs self.clear(): the RLock
\* is taken once more, LOCK_EX is asked again for the same descriptor, the
\* ring and the sum are zeroed, and leaving clear() unlocks the lock file
StNested(p) ==
    /\ pc[p] = "in_slide"
    /\ backend = "shared"
    /\ arg[p].value >= Frames
    /\ FlockFree(FileOf(p))
    /\ storage' = SharedClear(storage)
    /\ flock' = FlockUn(FileOf(p))
    /\ pc' = [pc EXCEPT ![p] = "slide_tail"]
    /\ UNCHANGED <<config, last, now, current_dt, rlock, arg, wake, added, mutex, before,
                   redlock, teardown, sugar>>

\* SharedMemoryStorage.slide(n < capacity), first statement:
\* self._data[n:] = self._data[:-n]
StMove(p) ==
    /\ pc[p] = "in_slide"
    /\ backend = "shared"
    /\ arg[p].value < Frames
    /\ LET n == arg[p].value
       IN  storage' = [storage EXCEPT !.data =
                SubSeq(@, 1, n) \o SubSeq(@, 1, Frames - n)]
    /\ pc' = [pc EXCEPT ![p] = "slide_moved"]
    /\ UNCHANGED <<config, guards, last, now, current_dt, rlock, arg, wake, added>>

\* SharedMemoryStorage.slide(n < capacity), second statement:
\* self._data[:n] = 0
StZero(p) ==
    /\ pc[p] = "slide_moved"
    /\ LET n == arg[p].value
       IN  storage' = [storage EXCEPT !.data =
                Zeros(n) \o SubSeq(@, n + 1, Frames)]
    /\ pc' = [pc EXCEPT ![p] = "slide_zeroed"]
    /\ UNCHANGED <<config, guards, last, now, current_dt, rlock, arg, wake, added>>

\* the body of the method and the end of its "with" block
StLeave(p) ==
    /\ Inside(p)
    /\ pc[p] # "slide_moved"
    /\ pc[p] = "in_slide" => backend = "simple"
    /\ LET a == arg[p].value
           r == CASE pc[p] = "in_atomic_update" ->
                        StorageAtomicUpdate(backend, storage, a, frame_limit, gate_limit, now)
                  [] pc[p] = "in_slide" -> StorageSlide(backend, storage, a, now)
                  [] pc[p] = "slide_tail" -> Res([storage EXCEPT !.sum = 0], "ok")
                  [] pc[p] = "slide_zeroed" -> Res(SharedSetSum(storage), "ok")
                  [] pc[p] = "in_clear" -> Res(StorageClear(backend, storage), "ok")
           op == CASE pc[p] = "in_atomic_update" -> "atomic_update"
                   [] pc[p] \in {"in_slide", "slide_tail", "slide_zeroed"} -> "slide"
                   [] pc[p] = "in_clear" -> "clear"
       IN  /\ storage' = r.st
           /\ last' = Call(op, a, frame_limit, gate_limit, r.err)
    /\ mutex' = [mutex EXCEPT ![InstOf(p)] = 0]
    /\ flock' = IF backend = "shared" THEN FlockUn(FileOf(p)) ELSE flock
    /\ pc' = [pc EXCEPT ![p] = "idle"]
    /\ arg' = [arg EXCEPT ![p] = NoArg]
    /\ before' = [before EXCEPT ![p] = NoStore]
    /\ UNCHANGED <<config, now, current_dt, rlock, wake, added, redlock, teardown, sugar>>

InitLocks ==
    /\ InitCommon
    /\ backend \in {"simple", "shared"}
    /\ gate_limit = 0
    /\ frame_limit = 0
    /\ shape \in Shapes
    /\ backend = "simple" => shape = "threads"
    /\ track = FALSE

NextLocks ==
    \/ \E p \in Callers, value \in Values \ {0} : StEnter(p, "atomic_update", value)
    \/ \E p \in Callers, n \in 1 .. Frames : StEnter(p, "slide", n)
    \/ \E p \in Callers : StEnter(p, "clear", 0)
    \/ \E p \in Callers : StNested(p)
    \/ \E p \in Callers : StMove(p)
    \/ \E p \in Callers : StZero(p)
    \/ \E p \in Callers : StLeave(p)

SpecLocks == InitLocks /\ [][NextLocks]_vars

\* ------------------------------------------------------------------ C9
\* C9: at any instant at most one caller is inside atomic_update, slide or
\* clear of the storage of one gate name, whether the callers are threads
\* of one process or processes that share the backend.
C9_SingleWriter == \A p, q \in Callers : Inside(p) /\ Inside(q) => p = q

\* --------------------------- one gate, one caller, a clock without end
\* The instant t seen from an origin one frame step later. Instants older
\* than that origin are all older than the whole window (MaxTime is at
\* least Horizon), so they are kept at 0.
Earlier(t) == IF t = None THEN None ELSE IF t < StepTicks THEN 0 ELSE t - StepTicks

\* the time in which every count on the ring ages out and one more sleep
\* of the retry loop ends
Horizon == (Frames + 1) * StepTicks

\* The origin of the clock moves one frame step later: every instant the
\* state holds is renamed and nothing happens in the program. With it the
\* clock of the model never stops.
Rebase ==
    /\ now = MaxTime
    /\ MaxTime >= Horizon
    /\ now' = Earlier(now)
    /\ storage' = [storage EXCEPT !.ts = Earlier(@)]
    /\ current_dt' = [i \in DOMAIN current_dt |-> Earlier(current_dt[i])]
    /\ wake' = [p \in DOMAIN wake |-> Earlier(wake[p])]
    /\ arg' = [p \in DOMAIN arg |-> [arg[p] EXCEPT !.step = Earlier(@)]]
    /\ added' = [added EXCEPT !.at = IF @ < 1 THEN 0 ELSE @ - 1]
    /\ UNCHANGED <<config, guards, last, rlock, pc>>

NextSoloFair == NextSolo \/ Rebase

\* the clock keeps advancing and the caller's thread keeps running: a
\* refresh, an atomic_update, a finished sleep or a raised error that can
\* happen does happen; nothing obliges the caller to call update()
SpecSoloFair ==
    /\ InitSolo
    /\ [][NextSoloFair]_vars
    /\ WF_vars(Tick)
    /\ WF_vars(Rebase)
    /\ WF_vars(UpdateRefresh(1))
    /\ WF_vars(UpdateAtomic(1))
    /\ WF_vars(UpdateWake(1))
    /\ WF_vars(UpdateRaised(1))

\* ------------------------------------------------------------------ C11
\* C11: a blocking update that was throttled and sleeps in the retry loop,
\* with no other caller on the gate and the clock advancing, eventually
\* performs its update and returns.
C11_ThrottledUpdateReturns == (pc[1] = "sleep") ~> (pc[1] = "idle")

\* ------------------------------------------------------------------ C12
\* what atomic_update answers to the attempt caller p is about to make
AtomicErr(p) ==
    StorageAtomicUpdate(backend, storage, arg[p].value,
                        frame_limit, gate_limit, now).err

MinSeed == -1

\* _data as _validate_data lets it through: any list of integers
SignedSeeds == UNION {[1 .. n -> MinSeed .. MaxSeed] : n \in 0 .. Frames + 1}

\* CallGate(..., _data = d) with no _current_dt: the storage is built on
\* the data and the gate adopts the storage's timestamp, which a fresh
\* storage does not have. The unsigned array of the shared storage turns a
\* negative entry into one near 2^64, beyond the integers of this model,
\* so the shared storage is built on entries from 0 up only.
InitBuilt ==
    /\ backend \in Backends
    /\ shape = "threads"
    /\ gate_limit \in {0, MaxLimit}
    /\ frame_limit \in {0, 1}
    /\ \E d \in SignedSeeds :
          /\ backend = "shared" => \A i \in DOMAIN d : d[i] >= 0
          /\ storage = StorageInit(backend, d)
    /\ now = 0
    /\ current_dt = [g \in Callers |-> StorageGetTimestamp(backend, storage)]
    /\ rlock = [d \in Callers |-> 0]
    /\ pc = [p \in Callers |-> "idle"]
    /\ arg = [p \in Callers |-> NoArg]
    /\ wake = [p \in Callers |-> 0]
    /\ last = NoCall
    /\ track = FALSE
    /\ added = [ring |-> Zeros(Frames), at |-> 0, timely |-> TRUE]
    /\ mutex = [g \in Callers |-> 0]
    /\ flock = 0
    /\ before = [p \in Callers |-> NoStore]
    /\ lock_key = 0
    /\ owner_key = [who |-> 0, ttl |-> 0]
    /\ count_key = [o \in Callers |-> 0]
    /\ held = [p \in Callers |-> 0]
    /\ lock_pc = [p \in Callers |-> "out"]
    /\ sugar = [p \in Callers |-> NoSugar]
    /\ client = NoClient
    /\ shm = NoShm

NextBuilt ==
    \/ \E value \in Values, throw \in BOOLEAN : UpdateCall(1, value, throw)
    \/ UpdateRefresh(1)
    \/ UpdateAtomic(1)
    \/ UpdateWake(1)
    \/ UpdateRaised(1)
    \/ Clear(1)
    \/ Tick

SpecBuilt == InitBuilt /\ [][NextBuilt]_vars

\* ------------------------------------------------------------------ C13
\* C13: in every reachable state of a gate, built with or without initial
\* data, every frame of the ring and the sum are at least 0.
C13_NothingNegative ==
    /\ \A i \in 1 .. Frames : storage.data[i] >= 0
    /\ StorageSum(backend, storage) >= 0

\* --------------------------- the storage methods step by step, recorded
\* SpecLocks with the history of the slides: threads of one process, or
\* processes that hold copies of one storage object
InitSlides ==
    /\ InitCommon
    /\ backend \in {"simple", "shared"}
    /\ gate_limit = 0
    /\ frame_limit = 0
    /\ shape \in {"threads", "procs"}
    /\ backend = "simple" => shape = "threads"
    /\ track = TRUE

SpecSlides == InitSlides /\ [][NextLocks]_vars

\* ------------------------------------------------------------------ C14
\* caller p returns from slide(n) with 0 < n < Frames
SlideReturned(p) ==
    /\ pc[p] \in {"in_slide", "slide_zeroed"}
    /\ pc'[p] = "idle"
    /\ 0 < arg[p].value /\ arg[p].value < Frames

\* C14: when slide(n) with 0 < n < Frames returns, the ring is the ring
\* that the call found moved by n (n zeros, then the first Frames - n
\* entries), and the sum is the sum the call found less the total of the n
\* entries that fell off: the call acts as one step on the storage.
C14_SlideShiftsAtOnce ==
    [][\A p \in Callers : SlideReturned(p) =>
        LET n == arg[p].value
            found == before[p]
        IN  /\ storage'.data = Zeros(n) \o SubSeq(found.data, 1, Frames - n)
            /\ StorageSum(backend, storage') =
                  StorageSum(backend, found)
                    - SeqSum(SubSeq(found.data, Frames - n + 1, Frames))]_vars

\* ------------------------------------------------------------------ C15
\* C15: slide(n) with n >= Frames leaves the storage in the state that
\* clear() would leave it in: every frame 0, the sum 0 and no timestamp
\* stored.
C15_WideSlideIsClear ==
    [][Called("slide") /\ last'.a >= Frames =>
        /\ last'.err = "ok"
        /\ storage' = StorageClear(backend, storage)
        /\ storage'.data = Zeros(Frames)
        /\ StorageSum(backend, storage') = 0
        /\ StorageGetTimestamp(backend, storage') = None]_vars

\* ------------------------------------------------------------------ C16
\* C16: in every backend slide(n) with n < 1 is refused with a value error
\* and leaves the ring, the sum and the timestamp as they were.
C16_SlideBelowOneRefused ==
    [][Called("slide") /\ last'.a < 1 =>
        /\ last'.err = "value_error"
        /\ storage' = storage]_vars

\* ------------------------------------------------------------------ C17
\* C17: when an update of a value other than 0 returns successfully, the
\* gate's current_dt is set and is the start of the frame in which the
\* update was made (the frame its refresh saw and in which it added).
C17_UpdateAnchorsCurrentFrame ==
    [][UpdateReturned(1) /\ arg[1].step = CurrentStep(now) =>
        /\ current_dt'[InstOf(1)] # None
        /\ current_dt'[InstOf(1)] = CurrentStep(now)]_vars

\* ------------------------------------------------------------------ C18
\* C18: whenever no update is in progress, the storage holds a timestamp
\* exactly when some frame of the ring is not 0.
C18_TimestampIffRingInUse ==
    pc[1] = "idle" =>
        (StorageGetTimestamp(backend, storage) # None
            <=> \E i \in 1 .. Frames : storage.data[i] # 0)

CheckLimits(p) ==
    /\ pc[p] = "idle"
    /\ LET i == InstOf(p)
           sum_ == StorageSum(backend, storage)
           current_value == storage.data[1]
           expired == /\ current_dt[i] # None
                      /\ TruncDiv(CurrentStep(now) - current_dt[i], StepTicks) >= Frames
           r == RefreshFrames(backend, storage, current_dt[i], now)
           err == IF gate_limit # 0 /\ sum_ >= gate_limit THEN "gate_limit"
                  ELSE IF frame_limit # 0 /\ current_value >= frame_limit THEN "frame_limit"
                  ELSE "ok"
       IN  IF expired
           THEN /\ pc' = [pc EXCEPT ![p] = "hung"]
                /\ UNCHANGED <<storage, current_dt, last>>
           ELSE /\ storage' = r.st
                /\ current_dt' = [current_dt EXCEPT ![i] = r.cdt]
                /\ last' = Call("check_limits", 0, frame_limit, gate_limit, err)
                /\ UNCHANGED pc
    /\ UNCHANGED <<config, guards, now, rlock, arg, wake, added>>

NextCheck == NextSolo \/ CheckLimits(1)

SpecCheck == InitSolo /\ [][NextCheck]_vars

\* ------------------------------------------------------------------ C20
\* C20: check_limits() always answers, leaves in the storage exactly what
\* the refresh leaves, and answers by the refreshed state: the gate limit
\* error if gate_limit > 0 and the sum has reached it, else the frame limit
\* error if frame_limit > 0 and the current frame has reached it, else
\* a normal return.
C20_CheckLimitsJudgesRefreshedState ==
    [][/\ pc'[1] # "hung"
       /\ Called("check_limits") =>
            /\ storage' = RefreshFrames(backend, storage, current_dt[1], now).st
            /\ last'.err =
                 IF gate_limit > 0 /\ StorageSum(backend, storage') >= gate_limit
                 THEN "gate_limit"
                 ELSE IF frame_limit > 0 /\ storage'.data[1] >= frame_limit
                 THEN "frame_limit"
                 ELSE "ok"]_vars

\* ----------------------------- one redis gate, destroyed and built again
\* The gate object of caller p is dropped and CallGate(name, ...) is called
\* again with the same name, without _data and without _current_dt: the
\* init script adjusts the list found under the name, the timestamp key
\* stays, and the new object adopts the stored timestamp as _current_dt.
Reconstruct(p) ==
    /\ pc[p] = "idle"
    /\ backend = "redis"
    /\ storage' = RedisInit(storage.data, storage.ts, <<>>)
    /\ current_dt' = [current_dt EXCEPT ![InstOf(p)] = RedisGetTimestamp(storage')]
    /\ UNCHANGED <<config, guards, last, now, rlock, pc, arg, wake, added>>

InitRestart ==
    /\ InitSolo
    /\ backend = "redis"

NextRestart == NextSolo \/ Reconstruct(1)

SpecRestart == InitRestart /\ [][NextRestart]_vars

\* ------------------------------------------------------------------ C21
\* the gate was anchored less than a window minus a frame step ago
WithinWindow ==
    /\ current_dt[1] # None
    /\ now - current_dt[1] < (Frames - 1) * StepTicks

\* C21: a redis gate that is destroyed and built again under its name
\* within the window less one frame step, with no clear in between and no
\* timestamp given, has the ring and the sum of the gate before, and its
\* current_dt is the frame anchor of the gate before, so that it keeps
\* counting into the frames that exist.
C21_RestartKeepsRingAndAnchor ==
    [][Reconstruct(1) /\ WithinWindow =>
        /\ storage'.data = storage.data
        /\ storage'.sum = storage.sum
        /\ current_dt'[1] = current_dt[1]]_vars

\* ------------------------------------------- as_dict, to_file, and back
\* BaseStorage.as_list of the three kinds: the shared one returns
\* self._data[:-1], the ring without its last entry
SimpleAsList(s) == s.data

SharedAsList(s) == SubSeq(s.data, 1, Len(s.data) - 1)

RedisAsList(s) == s.data

StorageAsList(b, s) ==
    CASE b = "simple" -> SimpleAsList(s)
      [] b = "shared" -> SharedAsList(s)
      [] b = "redis" -> RedisAsList(s)

\* datetime.isoformat() and datetime.fromisoformat(): a datetime is
\* written as text and read back from text
IsoFormat(dt) == ToString(dt)

FromIsoFormat(text) == CHOOSE dt \in 0 .. MaxTime + 1 : ToString(dt) = text

\* CallGate.as_dict: the fields that carry the visible state
AsDict(b, s, cdt) ==
    [storage |-> b,
     _data |-> StorageAsList(b, s),
     _current_dt |-> IF cdt # None THEN IsoFormat(cdt) ELSE "null"]

\* CallGate._validate_and_set_timestamp
ValidateAndSetTimestamp(timestamp) ==
    IF timestamp # "null" THEN FromIsoFormat(timestamp) ELSE None

\* SharedMemoryStorage.__init__ when the region of the name exists: the
\* data given is written over its head, the rest stays
SharedAttach(existing, d) ==
    LET cut == SubSeq(d, 1, Min(Len(d), Frames))
        ring == cut \o SubSeq(existing, Len(cut) + 1, Frames)
    IN  Store(ring, SeqSum(ring), None)

\* the storage CallGate.__init__ builds for kind b under a name whose gate
\* of kind was holds s: a deque of its own, the shared region of the name,
\* or the redis keys of the name
StorageBuild(was, b, s, d) ==
    CASE b = "simple" -> SimpleInit(d)
      [] b = "shared" -> IF was = "shared" THEN SharedAttach(s.data, d)
                         ELSE SharedInit(d)
      [] b = "redis" -> IF was = "redis" THEN RedisInit(s.data, s.ts, d)
                        ELSE RedisInit(<<>>, None, d)

Sentinel == "Sentinel"

\* CallGate(**gate.as_dict()) and CallGate.from_file(path, storage=kind)
\* after gate.to_file(path), by the thread of caller p: the state is taken
\* under the gate's _rlock, the storage tag is replaced when another kind
\* is asked for, and the constructor runs on the result
FromDict(p, kind) ==
    /\ pc[p] = "idle"
    /\ rlock[LockDomOf(p)] = 0
    /\ LET state == AsDict(backend, storage, current_dt[InstOf(p)])
           tag == IF kind # Sentinel /\ kind # state.storage THEN kind
                  ELSE state.storage
           built == StorageBuild(backend, tag, storage, state._data)
           given == ValidateAndSetTimestamp(state._current_dt)
       IN  /\ backend' = tag
           /\ storage' = built
           /\ current_dt' = [current_dt EXCEPT ![InstOf(p)] =
                  IF state._current_dt # "null" THEN given
                  ELSE StorageGetTimestamp(tag, built)]
    /\ UNCHANGED <<shape, gate_limit, frame_limit, track, guards, last, now,
                   rlock, pc, arg, wake, added>>

NextReload ==
    \/ NextSolo
    \/ \E kind \in Backends \cup {Sentinel} : FromDict(1, kind)

InitReload ==
    /\ InitCommon
    /\ gate_limit \in Limits
    /\ frame_limit \in Limits
    /\ ~(0 < gate_limit /\ gate_limit < frame_limit)
    /\ shape = "threads"
    /\ track = FALSE

SpecReload == InitReload /\ [][NextReload]_vars

\* ------------------------------------------------------------------ C22
\* C22: as_dict followed by from_dict, and to_file followed by from_file,
\* is the identity on the visible state: the gate that comes back has the
\* limits, the ring, the sum and the current_dt of the gate that was
\* saved, also when another storage kind is asked for on reload.
C22_ReloadIsIdentity ==
    [][\A kind \in Backends \cup {Sentinel} : FromDict(1, kind) =>
        /\ gate_limit' = gate_limit /\ frame_limit' = frame_limit
        /\ storage'.data = storage.data
        /\ StorageSum(backend', storage') = StorageSum(backend, storage)
        /\ current_dt'[1] = current_dt[1]]_vars

\* ------------------------------------------------ RedisReentrantLock
\* the timeout of the lock, in seconds, and the deepest nesting followed
LockTtl == 2

MaxDepth == 2

\* what the lock leaves alone: the gate and its storage
gate == <<config, storage, now, current_dt, rlock, pc, arg, wake, last, added,
          mutex, flock, before, sugar, teardown>>

\* self.owner is made once in __init__: threads that use one lock object
\* are one owner, lock objects built apart are owners apart
OwnerOf(p) == IF shape = "threads" THEN 1 ELSE p

\* a key with a time to live is there while seconds are left
Live(ttl) == ttl > 0

\* caller p reaches "with lock:"
LockEnter(p) ==
    /\ lock_pc[p] = "out"
    /\ held[p] < MaxDepth
    /\ lock_pc' = [lock_pc EXCEPT ![p] = "get"]
    /\ UNCHANGED <<gate, lock_key, owner_key, count_key, held>>

\* current_owner = self.client.get(self.owner_key), and the comparison
LockGet(p) ==
    /\ lock_pc[p] = "get"
    /\ LET current_owner == IF Live(owner_key.ttl) THEN owner_key.who ELSE 0
       IN  lock_pc' = [lock_pc EXCEPT ![p] =
               IF current_owner = OwnerOf(p) THEN "hincrby" ELSE "set_nx"]
    /\ UNCHANGED <<gate, lock_key, owner_key, count_key, held>>

\* self.client.hincrby(self.count_key, self.owner, 1)
LockHincrby(p) ==
    /\ lock_pc[p] = "hincrby"
    /\ count_key' = [count_key EXCEPT ![OwnerOf(p)] = @ + 1]
    /\ lock_pc' = [lock_pc EXCEPT ![p] = "enter_expire_lock"]
    /\ UNCHANGED <<gate, lock_key, owner_key, held>>

\* self.client.expire(self.lock_key, self.timeout), in __enter__ and in
\* __exit__: a key that is not there stays away
LockExpireLock(p) ==
    /\ lock_pc[p] \in {"enter_expire_lock", "exit_expire_lock"}
    /\ lock_key' = IF Live(lock_key) THEN LockTtl ELSE 0
    /\ lock_pc' = [lock_pc EXCEPT ![p] =
           IF @ = "enter_expire_lock" THEN "enter_expire_owner"
           ELSE "exit_expire_owner"]
    /\ UNCHANGED <<gate, owner_key, count_key, held>>

\* self.client.expire(self.owner_key, self.timeout); __enter__ then
\* breaks out of the loop and returns, __exit__ returns
LockExpireOwner(p) ==
    /\ lock_pc[p] \in {"enter_expire_owner", "exit_expire_owner"}
    /\ owner_key' = IF Live(owner_key.ttl) THEN [owner_key EXCEPT !.ttl = LockTtl]
                    ELSE owner_key
    /\ held' = [held EXCEPT ![p] =
           IF lock_pc[p] = "enter_expire_owner" THEN @ + 1 ELSE @ - 1]
    /\ lock_pc' = [lock_pc EXCEPT ![p] = "out"]
    /\ UNCHANGED <<gate, lock_key, count_key>>

\* self.client.set(self.lock_key, "1", nx=True, ex=self.timeout)
LockSetNx(p) ==
    /\ lock_pc[p] = "set_nx"
    /\ IF Live(lock_key)
       THEN /\ lock_pc' = [lock_pc EXCEPT ![p] = "sleep"]
            /\ UNCHANGED lock_key
       ELSE /\ lock_key' = LockTtl
            /\ lock_pc' = [lock_pc EXCEPT ![p] = "set_owner"]
    /\ UNCHANGED <<gate, owner_key, count_key, held>>

\* time.sleep(0.01), and the loop starts again
LockSleep(p) ==
    /\ lock_pc[p] = "sleep"
    /\ lock_pc' = [lock_pc EXCEPT ![p] = "get"]
    /\ UNCHANGED <<gate, lock_key, owner_key, count_key, held>>

\* self.client.set(self.owner_key, self.owner, ex=self.timeout)
LockSetOwner(p) ==
    /\ lock_pc[p] = "set_owner"
    /\ owner_key' = [who |-> OwnerOf(p), ttl |-> LockTtl]
    /\ lock_pc' = [lock_pc EXCEPT ![p] = "hset"]
    /\ UNCHANGED <<gate, lock_key, count_key, held>>

\* self.client.hset(self.count_key, self.owner, "1"); break; return self
LockHset(p) ==
    /\ lock_pc[p] = "hset"
    /\ count_key' = [count_key EXCEPT ![OwnerOf(p)] = 1]
    /\ held' = [held EXCEPT ![p] = @ + 1]
    /\ lock_pc' = [lock_pc EXCEPT ![p] = "out"]
    /\ UNCHANGED <<gate, lock_key, owner_key>>

\* caller p leaves a "with lock:" block:
\* count = self.client.hincrby(self.count_key, self.owner, -1)
LockExit(p) ==
    /\ lock_pc[p] = "out"
    /\ held[p] > 0
    /\ count_key' = [count_key EXCEPT ![OwnerOf(p)] = @ - 1]
    /\ lock_pc' = [lock_pc EXCEPT ![p] =
           IF count_key'[OwnerOf(p)] <= 0 THEN "delete" ELSE "exit_expire_lock"]
    /\ UNCHANGED <<gate, lock_key, owner_key, held>>

\* self.client.delete(self.lock_key, self.owner_key, self.count_key)
LockDelete(p) ==
    /\ lock_pc[p] = "delete"
    /\ lock_key' = 0
    /\ owner_key' = [who |-> 0, ttl |-> 0]
    /\ count_key' = [o \in Callers |-> 0]
    /\ held' = [held EXCEPT ![p] = @ - 1]
    /\ lock_pc' = [lock_pc EXCEPT ![p] = "out"]
    /\ UNCHANGED gate

\* the process of caller p ends inside the lock or on its way in or out,
\* and releases nothing; one caller at most is lost
LockDie(p) ==
    /\ \A q \in Callers : lock_pc[q] # "dead"
    /\ held[p] > 0 \/ lock_pc[p] # "out"
    /\ lock_pc' = [lock_pc EXCEPT ![p] = "dead"]
    /\ UNCHANGED <<gate, lock_key, owner_key, count_key, held>>

\* faulty variant of the next definition: the presence flag was written
\* without a time to live and stays
LockElapseFlagStays ==
    /\ Live(owner_key.ttl)
    /\ owner_key' = IF owner_key.ttl > 1 THEN [owner_key EXCEPT !.ttl = @ - 1]
                    ELSE [who |-> 0, ttl |-> 0]
    /\ UNCHANGED <<gate, lock_key, count_key, held, lock_pc>>

\* a second passes on the redis server: keys given a time to live lose a
\* second, and are gone when none is left
LockElapse ==
    /\ Live(lock_key) \/ Live(owner_key.ttl)
    /\ lock_key' = IF Live(lock_key) THEN lock_key - 1 ELSE 0
    /\ owner_key' = IF owner_key.ttl > 1 THEN [owner_key EXCEPT !.ttl = @ - 1]
                    ELSE [who |-> 0, ttl |-> 0]
    /\ UNCHANGED <<gate, count_key, held, lock_pc>>

NextRedLock ==
    \/ \E p \in Callers :
        \/ LockEnter(p) \/ LockGet(p) \/ LockHincrby(p) \/ LockExpireLock(p)
        \/ LockExpireOwner(p) \/ LockSetNx(p) \/ LockSleep(p)
        \/ LockSetOwner(p) \/ LockHset(p) \/ LockExit(p) \/ LockDelete(p)
        \/ LockDie(p)
    \/ LockElapse

InitRedLock ==
    /\ InitCommon
    /\ backend = "redis"
    /\ gate_limit = 0
    /\ frame_limit = 0
    /\ shape \in {"threads", "services"}
    /\ track = FALSE

SpecRedLock == InitRedLock /\ [][NextRedLock]_vars

\* caller p is inside a "with lock:" block
InLock(p) == held[p] > 0 /\ lock_pc[p] # "dead"

\* ------------------------------------------------------------------ C23
\* C23: the reentrant redis lock excludes different owners: from the
\* moment an owner's acquire has succeeded until its last release, no
\* acquire of another owner succeeds, so two owners are never inside
\* their "with lock:" blocks together.
C23_OwnersExcludeEachOther ==
    \A p, q \in Callers :
        OwnerOf(p) # OwnerOf(q) => ~(InLock(p) /\ InLock(q))

\* ------------------------------------------------------------------ C24
\* the callers that share the owner token o
UsersOf(o) == {p \in Callers : OwnerOf(p) = o}

\* the "with lock:" blocks that the users of owner o are inside of
RECURSIVE HeldBy(_)
HeldBy(users) ==
    IF users = {} THEN 0
    ELSE LET p == CHOOSE q \in users : TRUE
         IN  held[p] + HeldBy(users \ {p})

\* no user of owner o is inside __enter__ or __exit__, and none was lost
AtRest(o) == \A p \in UsersOf(o) : lock_pc[p] = "out"

\* C24: acquiring the redis lock again as the same owner does not make
\* the owner wait for itself; the nesting counter of an owner is the
\* number of its acquisitions not yet released; and the three keys are
\* there as long as one of them is outstanding, to be deleted by the last
\* matching release.
C24_CounterMatchesNesting ==
    \A o \in Callers :
        /\ \A p \in UsersOf(o) : held[p] > 0 => lock_pc[p] # "sleep"
        /\ AtRest(o) =>
            /\ count_key[o] = HeldBy(UsersOf(o))
            /\ HeldBy(UsersOf(o)) > 0 =>
                   Live(lock_key) /\ Live(owner_key.ttl) /\ owner_key.who = o

\* ------------------------------------------------------------------ C25
\* the commands of a call of __enter__ or __exit__ that has begun follow
\* one another (the loop sleeps 10 ms and tries again), and the seconds of
\* the server pass
SpecRedLockFair ==
    /\ InitRedLock
    /\ [][NextRedLock]_vars
    /\ WF_vars(LockElapse)
    /\ \A p \in Callers :
        /\ WF_vars(LockGet(p)) /\ WF_vars(LockHincrby(p))
        /\ WF_vars(LockExpireLock(p)) /\ WF_vars(LockExpireOwner(p))
        /\ WF_vars(LockSetNx(p)) /\ WF_vars(LockSleep(p))
        /\ WF_vars(LockSetOwner(p)) /\ WF_vars(LockHset(p))
        /\ WF_vars(LockDelete(p))

\* caller p is in __enter__ and has not come out
Entering(p) ==
    lock_pc[p] \in {"get", "hincrby", "enter_expire_lock", "enter_expire_owner",
                    "set_nx", "sleep", "set_owner", "hset"}

\* C25: when a holder of the redis lock is gone without releasing it, a
\* contender that keeps trying acquires the lock in the end, once the
\* time to live of the keys has run out: its loop does not spin forever.
C25_ContenderOutlivesDeadHolder ==
    \A p, q \in Callers :
        (lock_pc[p] = "dead" /\ Entering(q)) ~> (lock_pc[q] = "out" /\ held[q] > 0)

C25_Witness ==
    \E p, q \in Callers :
        /\ OwnerOf(p) # OwnerOf(q)
        /\ lock_pc[p] = "dead" /\ held[p] > 0
        /\ lock_pc[q] = "out" /\ held[q] > 0

\* ------------------------------------------------------------------ C26
\* faulty variant of the next definition: the frames are refreshed before
\* the value is looked at
UpdateZeroRefreshes(p) ==
    /\ pc[p] = "idle"
    /\ LET r == RefreshFrames(backend, storage, current_dt[InstOf(p)], now)
       IN  /\ storage' = r.st
           /\ current_dt' = [current_dt EXCEPT ![InstOf(p)] = r.cdt]
    /\ last' = Call("update", 0, frame_limit, gate_limit, "ok")
    /\ UNCHANGED <<config, guards, now, rlock, pc, arg, wake, added>>

\* update(0) by caller p: "if value == 0: return", before _rlock is asked
\* for; the call is noted in last
UpdateZero(p) ==
    /\ pc[p] = "idle"
    /\ last' = Call("update", 0, frame_limit, gate_limit, "ok")
    /\ UNCHANGED <<config, guards, storage, now, current_dt, rlock, pc, arg, wake, added>>

NextZero == NextSolo \/ \E p \in Callers : UpdateZero(p)

SpecZero == InitReload /\ [][NextZero]_vars

\* C26: update(0) does nothing: it returns at once and leaves the ring,
\* the sum, current_dt and the stored timestamp as they are, with no
\* refresh and no slide even when frames have gone by since the last call.
C26_UpdateZeroIsNoOp ==
    [][\A p \in Callers : UpdateZero(p) =>
        /\ storage' = storage
        /\ current_dt' = current_dt
        /\ pc'[p] = "idle"]_vars

\* update(0) has returned on a gate that holds calls and whose current
\* frame is over
C26_Witness ==
    /\ last.op = "update"
    /\ storage.data[1] > 0
    /\ current_dt[1] # None
    /\ now >= current_dt[1] + StepTicks

\* ------------------------------------------- gates built on initial data
\* CallGate(name, ..., storage=kind, _data=d) by caller p, with no
\* _current_dt, under the name of the gate there is: the storage of the
\* kind is built on d and on what it finds under the name, and the gate
\* adopts the timestamp of the storage; the call is noted in last with the
\* length of d
Construct(p, kind, d) ==
    /\ pc[p] = "idle"
    /\ rlock[LockDomOf(p)] = 0
    /\ backend' = kind
    /\ storage' = StorageBuild(backend, kind, storage, d)
    /\ current_dt' = [current_dt EXCEPT ![InstOf(p)] =
           StorageGetTimestamp(kind, storage')]
    /\ last' = Call("init", Len(d), frame_limit, gate_limit, "ok")
    /\ UNCHANGED <<shape, gate_limit, frame_limit, track, guards, now, rlock,
                   pc, arg, wake, added>>

NextConstruct == \E kind \in Backends, d \in Seeds : Construct(1, kind, d)

SpecConstruct == InitReload /\ [][NextConstruct]_vars

\* ------------------------------------------------------------------ C27
\* C27: a gate built on initial data d under a name that holds nothing
\* has the ring d, in the order given, padded with zeros at the tail or
\* cut to Frames entries; a redis gate built under a name whose list is
\* there has d in front of that list, the whole cut or padded to Frames;
\* and the sum of the storage is the total of the ring that results.
C27_InitialDataInOrder ==
    [][\A kind \in Backends, d \in Seeds : Construct(1, kind, d) =>
        /\ (kind = "simple" \/ (kind = "shared" /\ backend # "shared"))
               => storage'.data = AdjustList(d, Frames)
        /\ kind = "redis" => storage'.data =
               AdjustList(d \o (IF backend = "redis" THEN storage.data ELSE <<>>),
                          Frames)
        /\ StorageSum(kind, storage') = SeqSum(storage'.data)]_vars

\* --------------------------------- a second gate under the same name
\* CallGate(name, ..., storage=<the same kind>) once more in the process
\* of caller p, with no _data and no _current_dt, while the first gate is
\* there; the caller goes on with the new gate
SecondGate(p) == Construct(p, backend, <<>>)

NextSecond == NextSolo \/ SecondGate(1)

SpecSecond == InitReload /\ [][NextSecond]_vars

\* ------------------------------------------------------------------ C28
\* C28: the simple and the shared storage keep nothing between separate
\* gate objects: a second gate built under the same name in the same
\* process starts with an all-zero ring, sum 0 and no timestamp restored;
\* only the redis storage hands the state of the first gate on.
C28_OnlyRedisCarriesOver ==
    [][SecondGate(1) =>
        IF backend = "redis"
        THEN /\ storage'.data = storage.data
             /\ storage'.sum = storage.sum
             /\ current_dt'[1] = RedisGetTimestamp(storage)
        ELSE /\ storage'.data = Zeros(Frames)
             /\ StorageSum(backend, storage') = 0
             /\ current_dt'[1] = None]_vars

\* --------------------------------------- the decorator and the scope form
\* the four ways in: the wrapper and the awrapper that gate(value,
\* throw=...) puts around a function and around a coroutine function,
\* "with gate:" and "async with gate:"
SyncForms == {"wrapper", "enter"}

AsyncForms == {"awrapper", "aenter"}

\* the wrapper of dual: with a running event loop in the calling thread
\* update() hands back a coroutine, and the update runs when the coroutine
\* is awaited; with none it runs at once. awrapper and __aenter__ await
\* what they get, wrapper and __enter__ do not look at it.
Performs(form, loop) == form \in AsyncForms \/ ~loop

\* caller p calls a decorated function or enters the scope while a loop
\* runs in its thread or not; a coroutine runs on a loop, and the scope
\* forms are entered with the defaults value = 1, throw = False
SugarCall(p, form, loop, value, throw) ==
    /\ pc[p] = "idle"
    /\ sugar[p].stage = "none"
    /\ form \in AsyncForms => loop
    /\ form \in {"enter", "aenter"} => value = 1 /\ ~throw
    /\ sugar' = [sugar EXCEPT ![p] =
           [form |-> form, loop |-> loop, value |-> value, throw |-> throw,
            stage |-> "entry", updates |-> 0]]
    /\ UNCHANGED <<config, mutex, flock, before, redlock, teardown, storage, now, current_dt,
                   rlock, pc, arg, wake, last, added>>

\* self.update(value, throw), or await self.update(value, throw), at the
\* head of the wrapper or of __enter__ / __aenter__, where it runs
SugarUpdate(p) ==
    /\ sugar[p].stage = "entry"
    /\ Performs(sugar[p].form, sugar[p].loop)
    /\ UpdateBegin(p, sugar[p].value, sugar[p].throw)
    /\ sugar' = [sugar EXCEPT ![p].stage = "updated", ![p].updates = @ + 1]
    /\ UNCHANGED <<config, mutex, flock, before, redlock, teardown, last, now, wake, added>>

\* update() raised: the error leaves the wrapper or __enter__, and neither
\* the function nor the body of the scope runs
SugarRaised(p) ==
    /\ sugar[p].stage = "updated"
    /\ pc[p] = "raised"
    /\ pc' = [pc EXCEPT ![p] = "idle"]
    /\ arg' = [arg EXCEPT ![p] = NoArg]
    /\ sugar' = [sugar EXCEPT ![p] = NoSugar]
    /\ UNCHANGED <<config, mutex, flock, before, redlock, teardown, last, storage, now,
                   current_dt, rlock, wake, added>>

\* the wrapped function or the body of the scope runs and returns or
\* fails (ok), after update() has returned or after its coroutine was left
\* unawaited; __exit__ and __aexit__ are "pass". The outcome of the run is
\* noted in last.
SugarBody(p, ok) ==
    /\ pc[p] = "idle"
    /\ \/ sugar[p].stage = "updated"
       \/ sugar[p].stage = "entry" /\ ~Performs(sugar[p].form, sugar[p].loop)
    /\ last' = [NoCall EXCEPT !.op = "body", !.err = IF ok THEN "ok" ELSE "failed"]
    /\ sugar' = [sugar EXCEPT ![p] = NoSugar]
    /\ UNCHANGED <<config, mutex, flock, before, redlock, teardown, storage, now, current_dt,
                   rlock, pc, arg, wake, added>>

NextSugar ==
    \/ \E form \in SyncForms \cup AsyncForms, loop \in BOOLEAN,
          value \in Values, throw \in BOOLEAN : SugarCall(1, form, loop, value, throw)
    \/ SugarUpdate(1)
    \/ UpdateRefresh(1)
    \/ UpdateAtomic(1)
    \/ UpdateWake(1)
    \/ SugarRaised(1)
    \/ \E ok \in BOOLEAN : SugarBody(1, ok)
    \/ Tick

\* a gate with a gate limit, with or without a frame limit
InitSugar ==
    /\ InitCommon
    /\ gate_limit = MaxLimit
    /\ frame_limit \in {0, 1}
    /\ shape = "threads"
    /\ track = FALSE

SpecSugar == InitSugar /\ [][NextSugar]_vars

\* ------------------------------------------------------------------ C29
\* C29: every call through the decorator or the scope form makes exactly
\* one update(value, throw), before the wrapped function or the body
\* runs, and nothing on the way out: the body runs only once that update
\* has returned, and whether the body fails or not the gate is left as the
\* update left it.
C29_OneUpdateThenBody ==
    [][\A ok \in BOOLEAN : SugarBody(1, ok) =>
        /\ sugar[1].updates = 1
        /\ sugar[1].stage = "updated"
        /\ storage' = storage
        /\ current_dt' = current_dt]_vars

\* ------------------------------------------------------------------ C30
\* C30: when several gate objects (of threads or of processes) work on
\* one ring under one name, the ring stays gap-free and aligned to the
\* clock however their updates interleave: k frames gone by shift it by
\* exactly k places, whichever and however many objects refresh, and
\* data[i] is the total that all of them added during the frame i steps
\* before the newest.
C30_SharedRingGapFree ==
    [][\A p \in Callers :
        UpdateReturned(p) /\ added'.timely => storage'.data = added'.ring]_vars

\* ------------------------------------------------------------------ C31
\* the clear() of caller p changes the storage or the gate object
ClearTookEffect(p) ==
    /\ Clear(p)
    /\ <<storage, current_dt>>' # <<storage, current_dt>>

\* caller q is inside the "with self._rlock:" of update(), between a
\* refresh and the atomic_update that follows it
BetweenRefreshAndAtomic(q) == pc[q] = "atomic"

\* C31: clear() is serialised with update(): on a gate object used by two
\* threads, clear() by one thread never takes effect while the other is
\* between the refresh and the atomic_update of an update, so that the
\* two calls leave what one of their two serial orders leaves.
C31_ClearSerialisedWithUpdate ==
    [][\A p, q \in Callers :
        shape = "threads" /\ p # q /\ ClearTookEffect(p)
            => ~BetweenRefreshAndAtomic(q)]_vars

\* ------------------------------------------------------------------ C32
\* C32: whenever the redis storage of a gate used through update() holds
\* a timestamp, the timestamp is the anchor of the current frame: an
\* instant floored to a multiple of frame_step, and the current_dt of the
\* gate that wrote it.
C32_StoredTimestampIsAnchor ==
    backend = "redis" /\ RedisGetTimestamp(storage) # None =>
        /\ RedisGetTimestamp(storage) = CurrentStep(RedisGetTimestamp(storage))
        /\ RedisGetTimestamp(storage) = current_dt[1]

\* ------------------- one gate, one caller, check_limits, a clock without end
NextCheckFair == NextCheck \/ Rebase

\* the clock keeps advancing and the caller's thread keeps running; nothing
\* obliges the caller to call update() or check_limits()
SpecCheckFair ==
    /\ InitReload
    /\ [][NextCheckFair]_vars
    /\ WF_vars(Tick)
    /\ WF_vars(Rebase)
    /\ WF_vars(UpdateRefresh(1))
    /\ WF_vars(UpdateAtomic(1))
    /\ WF_vars(UpdateWake(1))
    /\ WF_vars(UpdateRaised(1))

\* caller p is inside check_limits(), waiting for self._lock
WaitsInCheckLimits(p) == pc[p] = "hung"

\* ------------------------------------------------------------------ C33
\* C33: check_limits() always terminates: a single thread that calls it in
\* any reachable state and at any time, also when the whole window has
\* gone by since the last refresh, gets its answer (a return or a limit
\* error) and is never left waiting for the gate's own lock.
C33_CheckLimitsTerminates == WaitsInCheckLimits(1) ~> (pc[1] = "idle")

\* ------------------------------------------------------------------ C34
\* the lock is there and its owner key names an owner other than p's
HeldByOther(p) ==
    /\ Live(lock_key)
    /\ Live(owner_key.ttl)
    /\ owner_key.who # OwnerOf(p)

\* a command of the __exit__ of caller p
Releasing(p) ==
    \/ LockExit(p)
    \/ LockDelete(p)
    \/ /\ lock_pc[p] \in {"exit_expire_lock", "exit_expire_owner"}
       /\ LockExpireLock(p) \/ LockExpireOwner(p)

\* C34: a release of the redis lock never frees the lock of another
\* owner: when the releasing owner's hold ran out by the time to live and
\* another owner has acquired the lock since, every command of the release
\* leaves the presence flag, the owner key and the counter of the new
\* owner in place.
C34_ReleaseSparesOtherOwner ==
    [][\A p \in Callers : Releasing(p) /\ HeldByOther(p) =>
        /\ Live(lock_key')
        /\ Live(owner_key'.ttl) /\ owner_key'.who = owner_key.who
        /\ count_key'[owner_key.who] = count_key[owner_key.who]]_vars

\* ------------------------- one redis gate whose connection may fail
\* self._client.eval(...) of RedisStorage.atomic_update ends with an error
\* of the connection (a timeout, a reset), which is no ResponseError and
\* leaves atomic_update as it is: the server has run the script to its
\* end (ran) or has not run it at all. update() treats the error like any
\* other: raised with throw or inside the retry loop, tried again after a
\* first attempt without throw.
UpdateAtomicLost(p, ran) ==
    /\ pc[p] = "atomic"
    /\ backend = "redis"
    /\ LET r == RedisAtomicUpdate(storage, arg[p].value, frame_limit, gate_limit, now)
           a == [arg[p] EXCEPT !.applied = IF ran THEN @ + 1 ELSE @]
       IN  /\ ran => r.err = "ok"
           /\ storage' = IF ran THEN r.st ELSE storage
           /\ added' = IF ran THEN Record(added, now, arg[p].value, arg[p].step)
                       ELSE added
           /\ IF ~Retries(arg[p], "backend_error")
              THEN /\ Raised(p, a, "backend_error")
                   /\ rlock' = [rlock EXCEPT ![LockDomOf(p)] = 0]
              ELSE /\ pc' = [pc EXCEPT ![p] = "refresh"]
                   /\ arg' = [arg EXCEPT ![p] =
                                 [a EXCEPT !.first = FALSE, !.err = "backend_error"]]
                   /\ UNCHANGED rlock
    /\ UNCHANGED <<config, guards, last, now, current_dt, wake>>

NextFaulty ==
    \/ NextSolo
    \/ \E ran \in BOOLEAN : UpdateAtomicLost(1, ran)

InitFaulty ==
    /\ InitReload
    /\ backend = "redis"

SpecFaulty == InitFaulty /\ [][NextFaulty]_vars

\* ------------------------------------------------------------------ C35
\* C35: one update(value) call applies its value at most once: when the
\* call returns, the attempt that succeeded is the only one the storage
\* has carried out, and when it raises, at most one was carried out; also
\* without throw, when the first attempt ended with an error that is not a
\* throttling error.
C35_ValueAppliedAtMostOnce ==
    [][\A p \in Callers :
        /\ UpdateReturned(p) => arg[p].applied = 0
        /\ pc'[p] = "raised" => arg'[p].applied <= 1]_vars

\* ------------------------------------------------------------------ C36
\* CallGate.data: self._data.as_list(), which is also the "_data" field
\* of as_dict()
GateData(b, s) == StorageAsList(b, s)

\* C36: the ring always has exactly Frames entries, after construction on
\* shorter, longer or no initial data and after every atomic_update,
\* slide, clear and indexed set, and the data property (the "_data" of
\* as_dict()) returns all Frames of them, in every backend.
C36_RingKeepsItsLength ==
    /\ Len(storage.data) = Frames
    /\ Len(GateData(backend, storage)) = Frames
    /\ GateData(backend, storage) = storage.data

\* ------------------------------------------------------------------ C37
\* a storage of kind c that holds the ring of s
SameRing(c, s) == Store(s.data, IF c = "simple" THEN 0 ELSE SeqSum(s.data), s.ts)

\* what the call op(a) answers and leaves on the storage s of kind c
Outcome(c, s, op, a, fl, gl, t) ==
    CASE op = "atomic_update" -> StorageAtomicUpdate(c, s, a, fl, gl, t)
      [] op = "slide" -> StorageSlide(c, s, a, t)
      [] op = "clear" -> Res(StorageClear(c, s), "ok")

\* C37: the three backends implement one contract: whatever call of
\* atomic_update, slide or clear a storage of one kind receives, a storage
\* of each other kind with the same ring and the same limits answers the
\* same call with the same outcome (success or the same kind of failure)
\* and is left with the same ring and the same sum; so the same sequence
\* of calls takes the three of them through the same rings.
C37_BackendsAgree ==
    [][\A op \in StOps : Called(op) =>
        \A c \in Backends :
            LET r == Outcome(c, SameRing(c, storage), op, last'.a, last'.fl,
                             last'.gl, now)
            IN  /\ r.err = last'.err
                /\ r.st.data = storage'.data
                /\ StorageSum(c, r.st) = StorageSum(backend, storage')]_vars

\* --------------------------- a redis gate dropped and built, with clients
\* "del gate" by caller p, or the end of the gate's life: CallGate.__del__
\* shuts the executor down, and the storage goes with the gate:
\* RedisStorage.__del__ runs self._client.close()
GateDrop(p) ==
    /\ pc[p] = "idle"
    /\ backend = "redis"
    /\ pc' = [pc EXCEPT ![p] = "gone"]
    /\ client' = [client EXCEPT !.closed = TRUE]
    /\ current_dt' = [current_dt EXCEPT ![InstOf(p)] = None]
    /\ UNCHANGED <<config, mutex, flock, before, redlock, sugar, shm, last, storage,
                   now, rlock, arg, wake, added>>

\* CallGate(name, ..., storage="redis", redis_client=c) for a client c of
\* the caller (injected), or with connection parameters from which
\* RedisStorage.__init__ makes a client of its own; the keys of the name
\* are adjusted and the gate adopts the stored timestamp. A client of the
\* caller is the one that the caller handed to the gate before, if it did.
GateBuild(p, injected) ==
    /\ pc[p] = "gone"
    /\ backend = "redis"
    /\ pc' = [pc EXCEPT ![p] = "idle"]
    /\ client' = [injected |-> injected,
                  closed |-> injected /\ client.injected /\ client.closed]
    /\ storage' = RedisInit(storage.data, storage.ts, <<>>)
    /\ current_dt' = [current_dt EXCEPT ![InstOf(p)] = RedisGetTimestamp(storage')]
    /\ UNCHANGED <<config, mutex, flock, before, redlock, sugar, shm, last, now,
                   rlock, arg, wake, added>>

NextTeardown ==
    \/ NextSolo
    \/ GateDrop(1)
    \/ \E injected \in BOOLEAN : GateBuild(1, injected)

\* a redis gate of any limits, built first on a client of its own
SpecTeardown == InitFaulty /\ [][NextTeardown]_vars

\* ------------------------------------------------------------------ C38
\* C38: a redis client that the caller injected is never closed by the
\* gate or by its storage when they are torn down; a client that the
\* storage made for itself is closed then.
C38_BorrowedClientStaysOpen ==
    [][\A p \in Callers : GateDrop(p) =>
        IF client.injected THEN client'.closed = client.closed
        ELSE client'.closed]_vars

\* ------------------- shared storages of one name, closed and opened again
\* shm.at[p] says what the storage of caller p maps: "named", the segments
\* that the gate name leads to; "orphan", segments that have lost their
\* name; "none", nothing (the storage is closed). The variable storage is
\* the content of the named segments; what callers write into segments
\* without a name is not followed.
\*
\* SharedMemoryStorage.close by caller p, called directly or by __del__:
\* the segments are closed and the names are unlinked, whoever else maps
\* them and whichever segments the names lead to by now
ShmClose(p) ==
    /\ backend = "shared"
    /\ shm.at[p] # "none"
    /\ shm' = [linked |-> FALSE,
               at |-> [q \in Callers |->
                          IF q = p THEN "none"
                          ELSE IF shm.at[q] = "named" THEN "orphan"
                          ELSE shm.at[q]]]
    /\ storage' = IF shm.linked THEN NoStore ELSE storage
    /\ UNCHANGED <<config, mutex, flock, before, redlock, sugar, client, last, now,
                   engine>>

\* SharedMemoryStorage(name, capacity) by caller p: the segments of the
\* name are attached, or made and filled with zeros when there are none
ShmOpen(p) ==
    /\ backend = "shared"
    /\ shm.at[p] = "none"
    /\ shm' = [linked |-> TRUE, at |-> [shm.at EXCEPT ![p] = "named"]]
    /\ storage' = IF shm.linked THEN SharedAttach(storage.data, <<>>)
                  ELSE SharedInit(<<>>)
    /\ UNCHANGED <<config, mutex, flock, before, redlock, sugar, client, last, now,
                   engine>>

\* a call by caller p, whose storage maps the named segments
ShmAtomicUpdate(p, value) ==
    /\ shm.at[p] = "named"
    /\ StAtomicUpdate(value, frame_limit, gate_limit)

ShmSlide(p, n) ==
    /\ shm.at[p] = "named"
    /\ StSlide(n)

NextShm ==
    \/ \E p \in Callers : ShmClose(p)
    \/ \E p \in Callers : ShmOpen(p)
    \/ \E p \in Callers, value \in Values \ {0} : ShmAtomicUpdate(p, value)
    \/ \E p \in Callers, n \in 1 .. Frames : ShmSlide(p, n)

\* two gates built under one name on the shared storage
InitShm ==
    /\ InitCommon
    /\ backend = "shared"
    /\ gate_limit = 0
    /\ frame_limit = 0
    /\ shape = "services"
    /\ track = FALSE

SpecShm == InitShm /\ [][NextShm]_vars

\* ------------------------------------------------------------------ C39
\* C39: the shared memory of a gate name is unlinked only when the last
\* storage attached to it closes: while another storage of the name is
\* open, a close leaves the name linked and the other storage on the
\* named segments, so that all open storages of the name see one ring;
\* the close of the last one unlinks the name.
C39_LastCloseUnlinks ==
    [][\A p \in Callers : ShmClose(p) =>
        LET others == {q \in Callers \ {p} : shm.at[q] # "none"}
        IN  /\ others # {} =>
                /\ shm'.linked = shm.linked
                /\ \A q \in others : shm'.at[q] = shm.at[q]
            /\ others = {} => ~shm'.linked]_vars

\* ------------------------------ one gate, one caller, a clock that is set
\* the wall clock is set back (an NTP step, a change by hand) while no
\* caller stands between a refresh and its atomic_update: the next
\* datetime.now() is earlier than the last
ClockBack ==
    /\ now > 0
    /\ \A p \in Callers : pc[p] # "atomic"
    /\ \E t \in 0 .. now - 1 : now' = t
    /\ UNCHANGED <<config, guards, last, storage, current_dt, rlock, pc, arg, wake,
                   added>>

NextSkew ==
    \/ NextSolo
    \/ Clear(1)
    \/ ClockBack

SpecSkew == InitReload /\ [][NextSkew]_vars

\* caller p runs self._refresh_frames() in this step
Refreshing(p) ==
    /\ pc[p] \in {"idle", "refresh"}
    /\ pc'[p] = "atomic"

\* ------------------------------------------------------------------ C40
\* C40: a refresh at a time earlier than current_dt neither slides nor
\* clears: it leaves the ring, the sum, the stored timestamp and
\* current_dt as they are; so current_dt, from one clear to the next,
\* never moves backwards.
C40_ClockBackChangesNothing ==
    [][/\ (Refreshing(1) /\ current_dt[1] # None /\ now < current_dt[1]) =>
            /\ storage' = storage
            /\ current_dt' = current_dt
       /\ (current_dt[1] # None /\ current_dt'[1] # None) =>
            current_dt'[1] >= current_dt[1]]_vars

\* an update has refreshed the gate at an instant earlier than current_dt
\* (the clock does not go back between the refresh and the atomic_update)
\* and the counts of the frame before are on the ring
C40_Witness ==
    /\ pc[1] = "atomic"
    /\ current_dt[1] # None
    /\ now < current_dt[1]
    /\ storage.data[2] > 0

====
